---- MODULE Spec2Model ----
(***************************************************************************)
(* Model of pkg/rbac/rbac.go (stolostron/rbac-api-utils): the              *)
(* AccessReviewer, GetMetricsAccess, GetResourceAccess, addUniqueItems and *)
(* makeSubjectRulesReviewForUser.                                          *)
(*                                                                         *)
(* Go strings that the code only compares for equality (API groups,        *)
(* resource types, resource names, tokens) are TLA+ strings.  Verbs and    *)
(* namespaces, which the code cuts with strings.HasPrefix/TrimPrefix, are  *)
(* sequences of one-character strings.  A Go map is a function whose       *)
(* DOMAIN is the set of its keys; a nil or empty slice is the empty        *)
(* sequence.  A pointer or interface value is a record with field isNil.   *)
(***************************************************************************)
EXTENDS Naturals, Sequences, FiniteSets, TLC

VARIABLES
    kConfig,                \* NewAccessReviewer: kConfig argument of the last call
    kClient,                \* NewAccessReviewer: kClient argument of the last call
    reviewer,               \* value returned by the last NewAccessReviewer
    ctorErr,                \* error returned by the last NewAccessReviewer
    pc,                     \* position of the current top-level call
    op,                     \* "GetMetricsAccess", "GetResourceAccess" or "none"
    userToken,              \* GetMetricsAccess: userToken argument
    kclient,                \* client the call talks to the cluster with
    gr,                     \* GetResourceAccess: gr argument
    resourcenames,          \* GetResourceAccess: resourcenames (GetMetricsAccess: clusters)
    namespace,              \* GetResourceAccess: namespace argument
    request,                \* SelfSubjectRulesReview sent to the authority
    response,               \* what the authority answered
    resourceRules,          \* value returned by makeSubjectRulesReviewForUser
    ruleIdx,                \* number of rules of resourceRules already processed
    resourceAccessResults,  \* GetResourceAccess: the map being built
    ret,                    \* value returned by the top-level call
    trips,                  \* Create calls made by the current top-level call
    heap,                   \* concurrent calls: the rest.Config objects, by address
    rKubeConfig,            \* concurrent calls: the pointer r.kubeConfig
    calls                   \* concurrent calls: the state of each GetMetricsAccess

vars == <<kConfig, kClient, reviewer, ctorErr, pc, op, userToken, kclient, gr, resourcenames,
          namespace, request, response, resourceRules, ruleIdx,
          resourceAccessResults, ret, trips, heap, rKubeConfig, calls>>

\* the variables of the concurrent calls
concVars == <<heap, rKubeConfig, calls>>

callVars == <<op, userToken, kclient, gr, resourcenames, namespace, request,
              response, resourceRules, ruleIdx, resourceAccessResults, ret, trips>>

-----------------------------------------------------------------------------
(* Bounds of the model *)

MaxRules == 2       \* longest rule list the authority returns
MaxNames == 2       \* longest list of requested resource names
MaxCalls == 2       \* GetMetricsAccess calls in parallel on one reviewer

-----------------------------------------------------------------------------
(* Strings cut by the code: sequences of characters *)

Range(s) == {s[i] : i \in 1..Len(s)}

Contains(s, x) == \E i \in 1..Len(s) : s[i] = x

HasPrefix(s, prefix) ==
    /\ Len(s) >= Len(prefix)
    /\ SubSeq(s, 1, Len(prefix)) = prefix

TrimPrefix(s, prefix) ==
    IF HasPrefix(s, prefix) THEN SubSeq(s, Len(prefix) + 1, Len(s)) ELSE s

MetricsVerbPrefix == <<"m", "e", "t", "r", "i", "c", "s", "/">>

MetricsACLConfig ==
    [groupRes |-> [Group    |-> "cluster.open-cluster-management.io",
                   Resource |-> "managedclusters"],
     verb     |-> MetricsVerbPrefix]

Star == <<"*">>

-----------------------------------------------------------------------------
(* Go maps *)

EmptyMap == [k \in {} |-> <<>>]

Lookup(m, k) == IF k \in DOMAIN m THEN m[k] ELSE <<>>

Put(m, k, v) == [x \in (DOMAIN m) \cup {k} |-> IF x = k THEN v ELSE m[x]]

-----------------------------------------------------------------------------
(* Values of the environment: configurations, clients, rules *)

NilConfig == [isNil |-> TRUE]
NilClient == [isNil |-> TRUE]
NilReviewer == [isNil |-> TRUE]

BaseK8sConfig ==
    [isNil |-> FALSE, Host |-> "https://hub:6443", APIPath |-> "/api",
     CAFile |-> "", CAData |-> "ca-bundle", ServerName |-> "hub",
     Insecure |-> FALSE,
     BearerToken |-> "sa-token", BearerTokenFile |-> "/var/run/secrets/token"]

NewForConfig(config) == [isNil |-> FALSE, config |-> config]

BaseK8sClient == NewForConfig(BaseK8sConfig)

Configs == {BaseK8sConfig}
Clients == {BaseK8sClient}
Tokens == {"", "user-red-token"}

ErrNeitherSet == "one of either kubeConfig or kubeClient must be a non-nil value"
ErrBothSet == "only one of either kubeConfig or kubeClient must be a non-nil value"
ErrNoToken == "failed to get a client to connect to the kubernetes cluster"
ErrNewForConfig == "kubernetes.NewForConfig failed"
ErrCreate == "SelfSubjectRulesReviews().Create failed"

Metrics(ns) == MetricsVerbPrefix \o ns

NsRed1 == <<"r", "1">>
NsRed2 == <<"r", "2">>
NsBlue1 == <<"b", "1">>
NsKubeSystem == <<"k", "s">>
VerbList == <<"l", "i", "s", "t">>
VerbMetricsNoSlash == <<"m", "e", "t", "r", "i", "c", "s">>

MetricsGroup == MetricsACLConfig.groupRes.Group
MetricsResource == MetricsACLConfig.groupRes.Resource

Rule(groups, resources, names, verbs) ==
    [APIGroups |-> groups, Resources |-> resources,
     ResourceNames |-> names, Verbs |-> verbs]

RedMetricsRule ==
    Rule(<<MetricsGroup>>, <<MetricsResource>>, <<"devcluster1", "devcluster2">>,
         <<Metrics(NsRed1), Metrics(NsRed2)>>)

BlueMetricsRule ==
    Rule(<<MetricsGroup>>, <<MetricsResource>>, <<"devcluster1">>,
         <<Metrics(NsRed2), Metrics(NsBlue1), Metrics(NsRed2)>>)

SystemMetricsRule ==
    Rule(<<MetricsGroup>>, <<MetricsResource>>, <<>>, <<Metrics(NsKubeSystem)>>)

ClusterAdminRule == Rule(<<"*">>, <<"*">>, <<>>, <<Star>>)

ListClustersRule ==
    Rule(<<MetricsGroup>>, <<MetricsResource>>, <<>>, <<VerbList, VerbMetricsNoSlash>>)

StarAndMetricsStarRule ==
    Rule(<<"apps", MetricsGroup>>, <<"*">>, <<"devcluster2">>,
         <<Metrics(Star), Star, VerbList>>)

OtherGroupRule ==
    Rule(<<"authorization.k8s.io">>, <<MetricsResource, "selfsubjectrulesreviews">>,
         <<"devcluster1">>, <<Metrics(NsBlue1), Star>>)

OtherResourceRule ==
    Rule(<<"*">>, <<"pods">>, <<>>, <<Metrics(NsBlue1), Star>>)

RuleUniverse ==
    {RedMetricsRule, BlueMetricsRule, SystemMetricsRule, ClusterAdminRule,
     ListClustersRule, StarAndMetricsStarRule, OtherGroupRule, OtherResourceRule}

SeqsUpTo(S, n) == UNION {[1..k -> S] : k \in 0..n}

RuleLists == SeqsUpTo(RuleUniverse, MaxRules)

\* names a caller asks for: one that rules name and one that no rule names
\* (names of resources; "*" is the key the code uses for "all resources")
ClusterNames == {"devcluster1", "blah"}

NameLists == SeqsUpTo(ClusterNames, MaxNames)

GroupResources ==
    {MetricsACLConfig.groupRes, [Group |-> "apps", Resource |-> "pods"]}

Namespaces == {"", "testns"}

EvaluationErrors == {"", "partial evaluation"}

NoRequest == [sent |-> FALSE]
NoResponse == [received |-> FALSE]
NoReturn == [returned |-> FALSE]

Return(m, e) == [returned |-> TRUE, isNil |-> FALSE, value |-> m, err |-> e]
ReturnNil(e) == [returned |-> TRUE, isNil |-> TRUE, err |-> e]

-----------------------------------------------------------------------------
(* NewAccessReviewer *)

\* new(AccessReviewer): both fields nil
NewReviewer == [isNil |-> FALSE, kubeConfig |-> NilConfig, kubeClient |-> NilClient]

\* NewAccessReviewerResult without the test for both arguments set
NewAccessReviewerResultBothAllowed(config, client) ==
    IF client.isNil /\ config.isNil
    THEN [reviewer |-> NilReviewer, err |-> ErrNeitherSet]
    ELSE IF ~config.isNil
    THEN [reviewer |-> [NewReviewer EXCEPT !.kubeConfig = config], err |-> ""]
    ELSE [reviewer |-> [NewReviewer EXCEPT !.kubeClient = client], err |-> ""]

NewAccessReviewerResult(config, client) ==
    IF client.isNil /\ config.isNil
    THEN [reviewer |-> NilReviewer, err |-> ErrNeitherSet]
    ELSE IF ~client.isNil /\ ~config.isNil
    THEN [reviewer |-> NilReviewer, err |-> ErrBothSet]
    ELSE IF ~config.isNil
    THEN [reviewer |-> [NewReviewer EXCEPT !.kubeConfig = config], err |-> ""]
    ELSE [reviewer |-> [NewReviewer EXCEPT !.kubeClient = client], err |-> ""]

NewAccessReviewer ==
    /\ pc = "idle"
    /\ \E config \in Configs \cup {NilConfig}, client \in Clients \cup {NilClient} :
          LET r == NewAccessReviewerResult(config, client) IN
          /\ kConfig' = config
          /\ kClient' = client
          /\ reviewer' = r.reviewer
          /\ ctorErr' = r.err
    /\ UNCHANGED <<pc, callVars, concVars>>

-----------------------------------------------------------------------------
(* getKubeClientForUser: newForConfigOk is the outcome of                  *)
(* kubernetes.NewForConfig on the derived configuration.                   *)

\* getKubeClientForUser that copies the bearer token of the stored
\* configuration instead of setting the token of the user
getKubeClientForUserStoredToken(r, token, newForConfigOk) ==
    IF ~r.kubeConfig.isNil
    THEN IF token # ""
         THEN IF newForConfigOk
              THEN [client |-> NewForConfig([r.kubeConfig EXCEPT !.BearerTokenFile = ""]),
                    err |-> ""]
              ELSE [client |-> NilClient, err |-> ErrNewForConfig]
         ELSE [client |-> NilClient, err |-> ErrNoToken]
    ELSE [client |-> r.kubeClient, err |-> ""]

getKubeClientForUser(r, token, newForConfigOk) ==
    IF ~r.kubeConfig.isNil
    THEN IF token # ""
         THEN LET userKubeConfig ==
                    [isNil |-> FALSE,
                     Host |-> r.kubeConfig.Host,
                     APIPath |-> r.kubeConfig.APIPath,
                     CAFile |-> r.kubeConfig.CAFile,
                     CAData |-> r.kubeConfig.CAData,
                     ServerName |-> r.kubeConfig.ServerName,
                     Insecure |-> r.kubeConfig.Insecure,
                     BearerTokenFile |-> "",
                     BearerToken |-> token]
              IN IF newForConfigOk
                 THEN [client |-> NewForConfig(userKubeConfig), err |-> ""]
                 ELSE [client |-> NilClient, err |-> ErrNewForConfig]
         ELSE [client |-> NilClient, err |-> ErrNoToken]
    ELSE [client |-> r.kubeClient, err |-> ""]

-----------------------------------------------------------------------------
(* makeSubjectRulesReviewForUser, up to the Create call *)

InvalidNamespace == "$ Invalid $"

\* ReviewNamespace without the replacement of the empty namespace
ReviewNamespaceUnchanged(ns) == ns

ReviewNamespace(ns) == IF ns = "" THEN InvalidNamespace ELSE ns

SelfSubjectRulesReview(client, ns) ==
    [sent |-> TRUE, client |-> client, Namespace |-> ReviewNamespace(ns)]

\* what Create can answer: an error, or a status with rules and possibly an
\* evaluation error
Responses ==
    {[received |-> TRUE, failed |-> TRUE, err |-> ErrCreate]}
    \cup
    {[received |-> TRUE, failed |-> FALSE,
      Status |-> [ResourceRules |-> rules, EvaluationError |-> evaluationError]] :
        rules \in RuleLists, evaluationError \in EvaluationErrors}

\* makeSubjectRulesReviewForUser that fails on an evaluation error
makeSubjectRulesReviewForUserStrict(resp) ==
    IF resp.failed
    THEN [rules |-> <<>>, err |-> resp.err]
    ELSE IF resp.Status.EvaluationError # ""
    THEN [rules |-> <<>>, err |-> resp.Status.EvaluationError]
    ELSE [rules |-> resp.Status.ResourceRules, err |-> ""]

\* makeSubjectRulesReviewForUser, from the answer of Create on
makeSubjectRulesReviewForUser(resp) ==
    IF resp.failed
    THEN [rules |-> <<>>, err |-> resp.err]
    ELSE [rules |-> resp.Status.ResourceRules, err |-> ""]

-----------------------------------------------------------------------------
(* addUniqueItems *)

\* addUniqueItems without the slices.Contains test
addUniqueItemsAppendAll(itemlist, itemsToAdd) == itemlist \o itemsToAdd

RECURSIVE addUniqueItems(_, _)
addUniqueItems(itemlist, itemsToAdd) ==
    IF itemsToAdd = <<>>
    THEN itemlist
    ELSE LET item == Head(itemsToAdd) IN
         addUniqueItems(IF ~Contains(itemlist, item)
                        THEN Append(itemlist, item)
                        ELSE itemlist,
                        Tail(itemsToAdd))

-----------------------------------------------------------------------------
(* GetResourceAccess: the body of the loop over the rules *)

\* ruleMatchesAPIGroup without the "*" alternative
ruleMatchesAPIGroupExact(rule, g) == Contains(rule.APIGroups, g.Group)

ruleMatchesAPIGroup(rule, g) ==
    Contains(rule.APIGroups, g.Group) \/ Contains(rule.APIGroups, "*")

ruleMatchesResource(rule, g) ==
    Contains(rule.Resources, g.Resource) \/ Contains(rule.Resources, "*")

\* AddForRuleNames without the test on the requested names
RECURSIVE AddForRuleNamesUnfiltered(_, _, _, _)
AddForRuleNamesUnfiltered(acc, ruleNames, wanted, verbs) ==
    IF ruleNames = <<>>
    THEN acc
    ELSE LET ruleResourceName == Head(ruleNames) IN
         AddForRuleNamesUnfiltered(
            Put(acc, ruleResourceName,
                addUniqueItems(Lookup(acc, ruleResourceName), verbs)),
            Tail(ruleNames), wanted, verbs)

\* for _, ruleResourceName := range rule.ResourceNames { if ... { merge } }
RECURSIVE AddForRuleNames(_, _, _, _)
AddForRuleNames(acc, ruleNames, wanted, verbs) ==
    IF ruleNames = <<>>
    THEN acc
    ELSE LET ruleResourceName == Head(ruleNames) IN
         AddForRuleNames(
            IF Len(wanted) = 0 \/ Contains(wanted, ruleResourceName)
            THEN Put(acc, ruleResourceName,
                     addUniqueItems(Lookup(acc, ruleResourceName), verbs))
            ELSE acc,
            Tail(ruleNames), wanted, verbs)

\* for _, rname := range resourcenames { merge }
RECURSIVE AddForWantedNames(_, _, _)
AddForWantedNames(acc, wanted, verbs) ==
    IF wanted = <<>>
    THEN acc
    ELSE LET rname == Head(wanted) IN
         AddForWantedNames(Put(acc, rname, addUniqueItems(Lookup(acc, rname), verbs)),
                           Tail(wanted), verbs)

\* MergeIntoAll: the verbs merged into every entry the map has
RECURSIVE MergeIntoAll(_, _, _)
MergeIntoAll(acc, todo, verbs) ==
    IF todo = {}
    THEN acc
    ELSE LET n == CHOOSE x \in todo : TRUE IN
         MergeIntoAll(Put(acc, n, addUniqueItems(Lookup(acc, n), verbs)),
                      todo \ {n}, verbs)

\* ApplyRule that, when no name is requested, merges the verbs of a rule
\* without resource names into "*" and into the entries of the named resources
ApplyRuleStarIntoNamed(acc, rule, g, wanted) ==
    IF ~(ruleMatchesAPIGroup(rule, g) /\ ruleMatchesResource(rule, g))
    THEN acc
    ELSE IF Len(rule.ResourceNames) # 0
    THEN AddForRuleNames(acc, rule.ResourceNames, wanted, rule.Verbs)
    ELSE IF Len(wanted) # 0
    THEN AddForWantedNames(acc, wanted, rule.Verbs)
    ELSE MergeIntoAll(acc, DOMAIN acc \cup {"*"}, rule.Verbs)

\* ApplyRule that puts the verbs of a rule without resource names under "*"
\* whatever names are requested
ApplyRuleAllUnderStar(acc, rule, g, wanted) ==
    IF ~(ruleMatchesAPIGroup(rule, g) /\ ruleMatchesResource(rule, g))
    THEN acc
    ELSE IF Len(rule.ResourceNames) # 0
    THEN AddForRuleNames(acc, rule.ResourceNames, wanted, rule.Verbs)
    ELSE Put(acc, "*", addUniqueItems(Lookup(acc, "*"), rule.Verbs))

ApplyRule(acc, rule, g, wanted) ==
    IF ~(ruleMatchesAPIGroup(rule, g) /\ ruleMatchesResource(rule, g))
    THEN acc
    ELSE IF Len(rule.ResourceNames) # 0
    THEN AddForRuleNames(acc, rule.ResourceNames, wanted, rule.Verbs)
    ELSE IF Len(wanted) # 0
    THEN AddForWantedNames(acc, wanted, rule.Verbs)
    ELSE Put(acc, "*", addUniqueItems(Lookup(acc, "*"), rule.Verbs))

\* AddMissingNames without the insertion of the empty entries
AddMissingNamesNoFill(acc, wanted) == acc

\* if len(resourcenames) != 0 { for ... { if !ok { results[rname] = []string{} } } }
RECURSIVE AddMissingNames(_, _)
AddMissingNames(acc, wanted) ==
    IF wanted = <<>>
    THEN acc
    ELSE LET rname == Head(wanted) IN
         AddMissingNames(IF rname \notin DOMAIN acc THEN Put(acc, rname, <<>>) ELSE acc,
                         Tail(wanted))

-----------------------------------------------------------------------------
(* GetMetricsAccess: decoding of the verbs of one cluster *)

\* metricsAccessMap without the branch for the verb "*"
metricsAccessMapNoStar(clusteracls) ==
    {TrimPrefix(clusteracls[i], MetricsACLConfig.verb) :
        i \in {j \in 1..Len(clusteracls) : HasPrefix(clusteracls[j], MetricsACLConfig.verb)}}

\* keys of metricsAccessMap after the loop over clusteracls
metricsAccessMap(clusteracls) ==
    {TrimPrefix(clusteracls[i], MetricsACLConfig.verb) :
        i \in {j \in 1..Len(clusteracls) : HasPrefix(clusteracls[j], MetricsACLConfig.verb)}}
    \cup
    {Star : i \in {j \in 1..Len(clusteracls) :
                     /\ ~HasPrefix(clusteracls[j], MetricsACLConfig.verb)
                     /\ clusteracls[j] = Star}}

\* "for ns := range metricsAccessMap" visits the keys in an unspecified order:
\* nsWithMetricsAccess is any of the orderings of the keys
RECURSIVE Orderings(_)
Orderings(S) ==
    IF S = {}
    THEN {<<>>}
    ELSE UNION {{<<x>> \o s : s \in Orderings(S \ {x})} : x \in S}

\* DecodeClusters that adds every cluster of resourceACLs to the result
RECURSIVE DecodeClustersKeepAll(_, _, _)
DecodeClustersKeepAll(resourceACLs, clusters, todo) ==
    IF todo = {}
    THEN {EmptyMap}
    ELSE LET clustername == CHOOSE c \in todo : TRUE
             rest == DecodeClustersKeepAll(resourceACLs, clusters, todo \ {clustername})
             keys == metricsAccessMap(resourceACLs[clustername])
         IN {Put(m, clustername, nsWithMetricsAccess) :
                m \in rest, nsWithMetricsAccess \in Orderings(keys)}

\* the maps the loop over resourceACLs can build for the clusters in todo
RECURSIVE DecodeClusters(_, _, _)
DecodeClusters(resourceACLs, clusters, todo) ==
    IF todo = {}
    THEN {EmptyMap}
    ELSE LET clustername == CHOOSE c \in todo : TRUE
             rest == DecodeClusters(resourceACLs, clusters, todo \ {clustername})
             keys == metricsAccessMap(resourceACLs[clustername])
         IN IF Cardinality(keys) > 0 \/ Contains(clusters, clustername)
            THEN {Put(m, clustername, nsWithMetricsAccess) :
                     m \in rest, nsWithMetricsAccess \in Orderings(keys)}
            ELSE rest

\* the maps GetMetricsAccess can return for resourceACLs
MetricsAccessResults(resourceACLs, clusters) ==
    DecodeClusters(resourceACLs, clusters, DOMAIN resourceACLs)

-----------------------------------------------------------------------------
(* Concurrent calls: rest.Config objects live at addresses *)

NilPointer == <<"nil">>

NoObjects == [a \in {} |-> NilConfig]

NoCalls == [c \in {} |-> [pc |-> "idle"]]

CallIds == 1..MaxCalls

\* kConfig, the object the caller passes to NewAccessReviewer
KConfigAddr == <<"kConfig">>

\* &configCopy, line 75
ConfigCopyAddr == <<"configCopy">>

\* &rest.Config{...} of call c, line 92
NewUserKubeConfigAddr(c) == <<"userKubeConfig", c>>

ConcTokens == {"", "user-red-token", "user-blue-token"}

\* the values the caller gives its own BearerToken field
CallerBearerTokens == {BaseK8sConfig.BearerToken, "rotated-sa-token"}

Store(h, a, v) == [x \in (DOMAIN h) \cup {a} |-> IF x = a THEN v ELSE h[x]]

Free(h, a) == [x \in (DOMAIN h) \ {a} |-> h[x]]

IdleCall ==
    [pc |-> "idle", userToken |-> "", userKubeConfig |-> NilPointer,
     kclient |-> NilClient, sent |-> FALSE, authToken |-> "", err |-> ""]

-----------------------------------------------------------------------------
(* State machine *)

Init ==
    /\ kConfig = NilConfig
    /\ kClient = NilClient
    /\ reviewer = NilReviewer
    /\ ctorErr = ""
    /\ pc = "idle"
    /\ op = "none"
    /\ userToken = ""
    /\ kclient = NilClient
    /\ gr = MetricsACLConfig.groupRes
    /\ resourcenames = <<>>
    /\ namespace = ""
    /\ request = NoRequest
    /\ response = NoResponse
    /\ resourceRules = <<>>
    /\ ruleIdx = 0
    /\ resourceAccessResults = EmptyMap
    /\ ret = NoReturn
    /\ trips = 0
    /\ heap = NoObjects
    /\ rKubeConfig = NilPointer
    /\ calls = NoCalls

\* GetMetricsAccess, lines 134-144, into GetResourceAccess and
\* makeSubjectRulesReviewForUser up to the Create call
GetMetricsAccessCall ==
    /\ pc = "idle"
    /\ ~reviewer.isNil
    /\ \E token \in Tokens, clusters \in NameLists, newForConfigOk \in BOOLEAN :
          LET c == getKubeClientForUser(reviewer, token, newForConfigOk) IN
          /\ op' = "GetMetricsAccess"
          /\ userToken' = token
          /\ resourcenames' = clusters
          /\ gr' = MetricsACLConfig.groupRes
          /\ namespace' = ""
          /\ kclient' = c.client
          /\ IF c.err # ""
             THEN /\ ret' = ReturnNil(c.err)
                  /\ request' = NoRequest
                  /\ trips' = trips
                  /\ pc' = "done"
             ELSE /\ ret' = NoReturn
                  /\ request' = SelfSubjectRulesReview(c.client, "")
                  /\ trips' = trips + 1
                  /\ pc' = "await"
    /\ response' = NoResponse
    /\ resourceRules' = <<>>
    /\ ruleIdx' = 0
    /\ resourceAccessResults' = EmptyMap
    /\ UNCHANGED <<kConfig, kClient, reviewer, ctorErr, concVars>>

\* GetResourceAccess called directly, up to the Create call
GetResourceAccessCall ==
    /\ pc = "idle"
    /\ reviewer.isNil /\ ctorErr = ""   \* the function takes no reviewer
    /\ \E client \in Clients, g \in GroupResources, names \in NameLists, ns \in Namespaces :
          /\ op' = "GetResourceAccess"
          /\ kclient' = client
          /\ gr' = g
          /\ resourcenames' = names
          /\ namespace' = ns
          /\ request' = SelfSubjectRulesReview(client, ns)
    /\ trips' = trips + 1
    /\ userToken' = ""
    /\ pc' = "await"
    /\ response' = NoResponse
    /\ resourceRules' = <<>>
    /\ ruleIdx' = 0
    /\ resourceAccessResults' = EmptyMap
    /\ ret' = NoReturn
    /\ UNCHANGED <<kConfig, kClient, reviewer, ctorErr, concVars>>

\* CreateCompletes that calls Create once more when it has failed
CreateCompletesRetry ==
    /\ pc = "await"
    /\ \E resp \in Responses :
          LET r == makeSubjectRulesReviewForUser(resp) IN
          /\ response' = resp
          /\ IF r.err # "" /\ trips < 2
             THEN /\ ret' = NoReturn
                  /\ resourceRules' = <<>>
                  /\ trips' = trips + 1
                  /\ pc' = "await"
             ELSE IF r.err # ""
             THEN /\ ret' = ReturnNil(r.err)
                  /\ resourceRules' = <<>>
                  /\ trips' = trips
                  /\ pc' = "done"
             ELSE /\ ret' = NoReturn
                  /\ resourceRules' = r.rules
                  /\ trips' = trips
                  /\ pc' = "rules"
    /\ ruleIdx' = 0
    /\ resourceAccessResults' = EmptyMap
    /\ UNCHANGED <<kConfig, kClient, reviewer, ctorErr, op, userToken, kclient, gr,
                   resourcenames, namespace, request, concVars>>

\* Create has answered: the rest of makeSubjectRulesReviewForUser; on an error
\* GetResourceAccess and GetMetricsAccess return (nil, err), otherwise
\* GetResourceAccess makes the empty result map and starts on the rules
CreateCompletes ==
    /\ pc = "await"
    /\ \E resp \in Responses :
          LET r == makeSubjectRulesReviewForUser(resp) IN
          /\ response' = resp
          /\ IF r.err # ""
             THEN /\ ret' = ReturnNil(r.err)
                  /\ resourceRules' = <<>>
                  /\ pc' = "done"
             ELSE /\ ret' = NoReturn
                  /\ resourceRules' = r.rules
                  /\ pc' = "rules"
    /\ ruleIdx' = 0
    /\ resourceAccessResults' = EmptyMap
    /\ UNCHANGED <<kConfig, kClient, reviewer, ctorErr, op, userToken, kclient, gr,
                   resourcenames, namespace, request, trips, concVars>>

\* one iteration of "for _, rule := range resourceRules"
ProcessRule ==
    /\ pc = "rules"
    /\ ruleIdx < Len(resourceRules)
    /\ resourceAccessResults' =
          ApplyRule(resourceAccessResults, resourceRules[ruleIdx + 1], gr, resourcenames)
    /\ ruleIdx' = ruleIdx + 1
    /\ UNCHANGED <<kConfig, kClient, reviewer, ctorErr, pc, op, userToken, kclient, gr, resourcenames,
                   namespace, request, response, resourceRules, ret, trips, concVars>>

\* GetResourceAccess, lines 252-264; GetMetricsAccess, lines 149-185
FinishCall ==
    /\ pc = "rules"
    /\ ruleIdx = Len(resourceRules)
    /\ LET resourceACLs ==
              IF Len(resourcenames) # 0
              THEN AddMissingNames(resourceAccessResults, resourcenames)
              ELSE resourceAccessResults
       IN /\ resourceAccessResults' = resourceACLs
          /\ IF op = "GetResourceAccess"
             THEN ret' = Return(resourceACLs, "")
             ELSE \E metricsAccessResults \in
                        MetricsAccessResults(resourceACLs, resourcenames) :
                     ret' = Return(metricsAccessResults, "")
    /\ pc' = "done"
    /\ UNCHANGED <<kConfig, kClient, reviewer, ctorErr, op, userToken, kclient, gr, resourcenames,
                   namespace, request, response, resourceRules, ruleIdx, trips, concVars>>

\* the caller takes the result; the next call can start
CallDone ==
    /\ pc = "done"
    /\ pc' = "idle"
    /\ op' = "none"
    /\ userToken' = ""
    /\ kclient' = NilClient
    /\ gr' = MetricsACLConfig.groupRes
    /\ resourcenames' = <<>>
    /\ namespace' = ""
    /\ request' = NoRequest
    /\ response' = NoResponse
    /\ resourceRules' = <<>>
    /\ ruleIdx' = 0
    /\ resourceAccessResults' = EmptyMap
    /\ ret' = NoReturn
    /\ trips' = 0
    /\ UNCHANGED <<kConfig, kClient, reviewer, ctorErr, concVars>>

Next ==
    \/ NewAccessReviewer
    \/ GetMetricsAccessCall
    \/ GetResourceAccessCall
    \/ CreateCompletes
    \/ ProcessRule
    \/ FinishCall
    \/ CallDone

Spec == Init /\ [][Next]_vars

-----------------------------------------------------------------------------
(* Concurrent GetMetricsAccess calls on a reviewer built from a config *)

InitConc ==
    /\ kConfig = NilConfig
    /\ kClient = NilClient
    /\ reviewer = NilReviewer
    /\ ctorErr = ""
    /\ pc = "idle"
    /\ op = "none"
    /\ userToken = ""
    /\ kclient = NilClient
    /\ gr = MetricsACLConfig.groupRes
    /\ resourcenames = <<>>
    /\ namespace = ""
    /\ request = NoRequest
    /\ response = NoResponse
    /\ resourceRules = <<>>
    /\ ruleIdx = 0
    /\ resourceAccessResults = EmptyMap
    /\ ret = NoReturn
    /\ trips = 0
    /\ heap = Store(NoObjects, KConfigAddr, BaseK8sConfig)
    /\ rKubeConfig = NilPointer
    /\ calls = [c \in CallIds |-> IdleCall]

seqVars == <<kConfig, kClient, reviewer, ctorErr, pc, callVars>>

\* NewAccessReviewer(kConfig, nil), lines 71-75
NewAccessReviewerFromConfig ==
    /\ rKubeConfig = NilPointer
    /\ heap' = Store(heap, ConfigCopyAddr, heap[KConfigAddr])
    /\ rKubeConfig' = ConfigCopyAddr
    /\ UNCHANGED <<calls, seqVars>>

\* the caller writes the BearerToken field of the object it owns
CallerWritesConfig ==
    /\ \E t \in CallerBearerTokens \ {heap[KConfigAddr].BearerToken} :
          heap' = [heap EXCEPT ![KConfigAddr].BearerToken = t]
    /\ UNCHANGED <<rKubeConfig, calls, seqVars>>

\* GetMetricsAccess is called, lines 134-138 and 88-90, 117-119
GetMetricsAccessBegin(c) ==
    /\ rKubeConfig # NilPointer
    /\ calls[c].pc = "idle"
    /\ \E token \in ConcTokens :
          calls' = [calls EXCEPT ![c] =
                      IF token # ""
                      THEN [IdleCall EXCEPT !.pc = "copy", !.userToken = token]
                      ELSE [IdleCall EXCEPT !.pc = "done", !.userToken = token,
                                            !.err = ErrNoToken]]
    /\ UNCHANGED <<heap, rKubeConfig, seqVars>>

\* MakeUserKubeConfig with userKubeConfig := r.kubeConfig instead of a new
\* object
MakeUserKubeConfigShared(c) ==
    /\ calls[c].pc = "copy"
    /\ calls' = [calls EXCEPT ![c].pc = "settoken",
                              ![c].userKubeConfig = rKubeConfig]
    /\ UNCHANGED <<heap, rKubeConfig, seqVars>>

\* userKubeConfig := &rest.Config{...}, lines 92-102
MakeUserKubeConfig(c) ==
    /\ calls[c].pc = "copy"
    /\ LET a == NewUserKubeConfigAddr(c)
           stored == heap[rKubeConfig]
       IN /\ heap' = Store(heap, a,
                           [isNil |-> FALSE,
                            Host |-> stored.Host,
                            APIPath |-> stored.APIPath,
                            CAFile |-> stored.CAFile,
                            CAData |-> stored.CAData,
                            ServerName |-> stored.ServerName,
                            Insecure |-> stored.Insecure,
                            BearerTokenFile |-> "",
                            BearerToken |-> ""])
          /\ calls' = [calls EXCEPT ![c].pc = "settoken",
                                    ![c].userKubeConfig = a]
    /\ UNCHANGED <<rKubeConfig, seqVars>>

\* lines 106-107
SetBearerToken(c) ==
    /\ calls[c].pc = "settoken"
    /\ heap' = [heap EXCEPT ![calls[c].userKubeConfig] =
                    [@ EXCEPT !.BearerTokenFile = "",
                              !.BearerToken = calls[c].userToken]]
    /\ calls' = [calls EXCEPT ![c].pc = "newclient"]
    /\ UNCHANGED <<rKubeConfig, seqVars>>

\* kubernetes.NewForConfig(userKubeConfig), lines 109-114
NewForConfigCall(c) ==
    /\ calls[c].pc = "newclient"
    /\ \E newForConfigOk \in BOOLEAN :
          calls' = [calls EXCEPT ![c] =
                      IF newForConfigOk
                      THEN [@ EXCEPT !.pc = "create",
                                     !.kclient = NewForConfig(heap[calls[c].userKubeConfig])]
                      ELSE [@ EXCEPT !.pc = "done", !.err = ErrNewForConfig]]
    /\ UNCHANGED <<heap, rKubeConfig, seqVars>>

\* the round trip leaves with the credential of the client, line 317
CreateSent(c) ==
    /\ calls[c].pc = "create"
    /\ calls' = [calls EXCEPT ![c].pc = "await",
                              ![c].sent = TRUE,
                              ![c].authToken = calls[c].kclient.config.BearerToken]
    /\ UNCHANGED <<heap, rKubeConfig, seqVars>>

\* Create returns, lines 317-334, and the call runs to its return
CreateReturns(c) ==
    /\ calls[c].pc = "await"
    /\ \E failed \in BOOLEAN :
          calls' = [calls EXCEPT ![c].pc = "done",
                                ![c].err = IF failed THEN ErrCreate ELSE ""]
    /\ UNCHANGED <<heap, rKubeConfig, seqVars>>

\* the call has returned; its userKubeConfig is garbage
CallReturned(c) ==
    /\ calls[c].pc = "done"
    /\ heap' = Free(heap, NewUserKubeConfigAddr(c))
    /\ calls' = [calls EXCEPT ![c] = IdleCall]
    /\ UNCHANGED <<rKubeConfig, seqVars>>

NextConc ==
    \/ NewAccessReviewerFromConfig
    \/ CallerWritesConfig
    \/ \E c \in CallIds : GetMetricsAccessBegin(c)
    \/ \E c \in CallIds : MakeUserKubeConfig(c)
    \/ \E c \in CallIds : SetBearerToken(c)
    \/ \E c \in CallIds : NewForConfigCall(c)
    \/ \E c \in CallIds : CreateSent(c)
    \/ \E c \in CallIds : CreateReturns(c)
    \/ \E c \in CallIds : CallReturned(c)

SpecConc == InitConc /\ [][NextConc]_vars

-----------------------------------------------------------------------------
(* Vocabulary of the properties, stated without the operators of the model *)

Elems(s) == {s[i] : i \in DOMAIN s}

NoDuplicates(s) == \A i, j \in DOMAIN s : s[i] = s[j] => i = j

\* the call has returned a map
ReturnedMap == pc = "done" /\ ret.returned /\ ~ret.isNil

\* the rule is for the target group and resource type
RuleIsFor(rule, g) ==
    /\ g.Group \in Elems(rule.APIGroups) \/ "*" \in Elems(rule.APIGroups)
    /\ g.Resource \in Elems(rule.Resources) \/ "*" \in Elems(rule.Resources)

\* the rule is about the entry of name n
Names(rule, wanted, n) ==
    IF rule.ResourceNames # <<>>
    THEN n \in Elems(rule.ResourceNames) /\ (wanted = <<>> \/ n \in Elems(wanted))
    ELSE IF wanted # <<>> THEN n \in Elems(wanted) ELSE n = "*"

\* the rule gives its verbs to the entry of name n
ContributesTo(rule, g, wanted, n) == RuleIsFor(rule, g) /\ Names(rule, wanted, n)

\* the verbs that the first k rules of the answer give to the entry of name n
VerbsGiven(k, n) ==
    UNION {Elems(resourceRules[i].Verbs) :
             i \in {j \in 1..k : ContributesTo(resourceRules[j], gr, resourcenames, n)}}

VerbsOf(n) == VerbsGiven(Len(resourceRules), n)

IsMetricsVerb(v) ==
    /\ Len(v) >= 8
    /\ <<v[1], v[2], v[3], v[4], v[5], v[6], v[7], v[8]>>
          = <<"m", "e", "t", "r", "i", "c", "s", "/">>

AfterMetricsPrefix(v) == [i \in 1..(Len(v) - 8) |-> v[i + 8]]

\* the namespaces that the verbs of name n stand for
NamespacesOf(n) ==
    {AfterMetricsPrefix(v) : v \in {w \in VerbsOf(n) : IsMetricsVerb(w)}}
    \cup (IF <<"*">> \in VerbsOf(n) THEN {<<"*">>} ELSE {})

\* every key a result can have
KnownNames ==
    ClusterNames \cup {"*"} \cup UNION {Elems(rule.ResourceNames) : rule \in RuleUniverse}

-----------------------------------------------------------------------------
\* C1: the map returned by GetResourceAccess or GetMetricsAccess has a key for
\* every requested resource name, and a requested name to which no matching
\* rule gives a verb is mapped to the empty sequence.
C1_RequestedNamesPresent ==
    ReturnedMap =>
        \A n \in Elems(resourcenames) :
            /\ n \in DOMAIN ret.value
            /\ VerbsOf(n) = {} => ret.value[n] = <<>>

C1_Witness ==
    /\ ReturnedMap
    /\ op = "GetMetricsAccess"
    /\ resourceRules = <<RedMetricsRule>>
    /\ resourcenames = <<"blah">>
    /\ "blah" \in DOMAIN ret.value
    /\ ret.value["blah"] = <<>>

\* C2: the map returned by GetMetricsAccess has a key for cluster c if and only
\* if a namespace was decoded from the verbs of c or c was requested; a
\* requested cluster without decoded namespace is mapped to the empty sequence;
\* with only non-metrics verbs and no cluster requested the map is empty.
C2_MetricsKeys ==
    (ReturnedMap /\ op = "GetMetricsAccess") =>
        /\ DOMAIN ret.value \subseteq KnownNames
        /\ \A c \in KnownNames :
              /\ c \in DOMAIN ret.value
                    <=> (NamespacesOf(c) # {} \/ c \in Elems(resourcenames))
              /\ (c \in Elems(resourcenames) /\ NamespacesOf(c) = {})
                    => ret.value[c] = <<>>
        /\ (resourcenames = <<>> /\ \A c \in KnownNames : NamespacesOf(c) = {})
              => DOMAIN ret.value = {}

C2_Witness ==
    /\ ReturnedMap
    /\ op = "GetMetricsAccess"
    /\ resourceRules = <<ListClustersRule>>
    /\ resourcenames = <<>>
    /\ DOMAIN resourceAccessResults = {"*"}
    /\ DOMAIN ret.value = {}

\* C3: the namespace list of every cluster of the map returned by
\* GetMetricsAccess has no duplicate and holds exactly the verbs of the cluster
\* that start with "metrics/", with that prefix removed, and "*" when the verb
\* "*" is among them; other verbs give nothing.
C3_NamespacesDecoded ==
    (ReturnedMap /\ op = "GetMetricsAccess") =>
        \A c \in DOMAIN ret.value :
            /\ NoDuplicates(ret.value[c])
            /\ Elems(ret.value[c]) = NamespacesOf(c)

C3_Witness ==
    /\ ReturnedMap
    /\ op = "GetMetricsAccess"
    /\ resourceRules = <<StarAndMetricsStarRule>>
    /\ resourcenames = <<>>
    /\ ret.value = ("devcluster2" :> <<(<<"*">>)>>)

-----------------------------------------------------------------------------
(* One iteration of the loop over the rules, as a step *)

RuleStep == pc = "rules" /\ ruleIdx' = ruleIdx + 1

StepRule == resourceRules[ruleIdx']

EntryOf(m, n) == IF n \in DOMAIN m THEN Elems(m[n]) ELSE {}

\* the step leaves the entry of n as it is (absent, or present with its verbs)
SameEntry(n) ==
    /\ n \in DOMAIN resourceAccessResults' <=> n \in DOMAIN resourceAccessResults
    /\ n \in DOMAIN resourceAccessResults
          => resourceAccessResults'[n] = resourceAccessResults[n]

\* the step merges the verbs of the rule into the entry of n
Merged(n) ==
    /\ n \in DOMAIN resourceAccessResults'
    /\ Elems(resourceAccessResults'[n])
          = EntryOf(resourceAccessResults, n) \cup Elems(StepRule.Verbs)

\* C4: a matching rule without resource names has its verbs merged into the
\* entry of every requested name when names are requested, no other entry
\* changes and no "*" entry exists then; its verbs are merged into the entry
\* "*" alone when no name is requested.
C4_Step ==
    (RuleStep /\ RuleIsFor(StepRule, gr) /\ StepRule.ResourceNames = <<>>) =>
        /\ DOMAIN resourceAccessResults' \subseteq KnownNames
        /\ IF resourcenames # <<>>
           THEN /\ \A n \in Elems(resourcenames) : Merged(n)
                /\ \A n \in KnownNames \ Elems(resourcenames) : SameEntry(n)
                /\ "*" \notin DOMAIN resourceAccessResults'
           ELSE /\ Merged("*")
                /\ \A n \in KnownNames \ {"*"} : SameEntry(n)

\* C4, for every iteration of the loop over the rules
C4_UnrestrictedRule == [][C4_Step]_vars

C4_Witness ==
    /\ pc = "rules"
    /\ op = "GetMetricsAccess"
    /\ ruleIdx = 2
    /\ resourceRules = <<BlueMetricsRule, SystemMetricsRule>>
    /\ resourcenames = <<"devcluster1", "blah">>
    /\ resourceAccessResults["blah"] = <<Metrics(NsKubeSystem)>>
    /\ resourceAccessResults["devcluster1"]
          = <<Metrics(NsRed2), Metrics(NsBlue1), Metrics(NsKubeSystem)>>

\* C5: a matching rule with resource names merges its verbs into the entry of
\* n exactly when n is one of its resource names and no name is requested or n
\* is requested; when names are requested the result has no key outside them.
C5_Step ==
    (RuleStep /\ RuleIsFor(StepRule, gr) /\ StepRule.ResourceNames # <<>>) =>
        /\ DOMAIN resourceAccessResults' \subseteq KnownNames
        /\ \A n \in KnownNames :
              IF /\ n \in Elems(StepRule.ResourceNames)
                 /\ resourcenames = <<>> \/ n \in Elems(resourcenames)
              THEN Merged(n)
              ELSE SameEntry(n)

C5_Keys ==
    resourcenames # <<>> =>
        /\ DOMAIN resourceAccessResults \subseteq Elems(resourcenames)
        /\ ReturnedMap => DOMAIN ret.value = Elems(resourcenames)

\* C5, for every iteration of the loop and every state
C5_NamedRule == [][C5_Step]_vars /\ []C5_Keys

C5_Witness ==
    /\ ReturnedMap
    /\ op = "GetMetricsAccess"
    /\ resourceRules = <<RedMetricsRule>>
    /\ resourcenames = <<"devcluster1">>
    /\ DOMAIN ret.value = {"devcluster1"}
    /\ Elems(ret.value["devcluster1"]) = {NsRed1, NsRed2}

\* C6: a rule changes the result only if the target group or "*" is among its
\* API groups and the target resource type or "*" is among its resources; a
\* rule with "*" for both is applied for any target; a caller whose only
\* matching rule is */*/* without resource names gets {"*": ["*"]} from
\* GetMetricsAccess when no cluster is requested.
C6_Step ==
    RuleStep =>
        /\ ~RuleIsFor(StepRule, gr) => resourceAccessResults' = resourceAccessResults
        /\ ("*" \in Elems(StepRule.APIGroups) /\ "*" \in Elems(StepRule.Resources))
              => \A n \in KnownNames : Names(StepRule, resourcenames, n) => Merged(n)

C6_FullyPrivileged ==
    ( /\ ReturnedMap
      /\ op = "GetMetricsAccess"
      /\ resourcenames = <<>>
      /\ \E i \in DOMAIN resourceRules : resourceRules[i] = ClusterAdminRule
      /\ \A i \in DOMAIN resourceRules :
            resourceRules[i] # ClusterAdminRule => ~RuleIsFor(resourceRules[i], gr) )
    => ret.value = ("*" :> <<(<<"*">>)>>)

\* C6, for every iteration of the loop and every state
C6_RuleMatching == [][C6_Step]_vars /\ []C6_FullyPrivileged

C6_Witness ==
    /\ ReturnedMap
    /\ op = "GetMetricsAccess"
    /\ resourcenames = <<>>
    /\ resourceRules = <<OtherGroupRule, ClusterAdminRule>>
    /\ ret.value = ("*" :> <<(<<"*">>)>>)

-----------------------------------------------------------------------------
(* The loop over a rule list, for the comparison of its permutations *)

RECURSIVE ApplyRules(_, _, _, _)
ApplyRules(acc, rules, g, wanted) ==
    IF rules = <<>>
    THEN acc
    ELSE ApplyRules(ApplyRule(acc, Head(rules), g, wanted), Tail(rules), g, wanted)

IndexPermutations(n) ==
    {f \in [1..n -> 1..n] : \A i, j \in 1..n : f[i] = f[j] => i = j}

Permuted(rules, f) == [i \in 1..Len(rules) |-> rules[f[i]]]

AsSets(m) == [n \in DOMAIN m |-> Elems(m[n])]

\* C7: no verb list of the result has a duplicate, every verb list is as a set
\* the union of the verbs of the rules that contribute to its entry, the sets
\* are the same for every permutation of the rule list, and {A,B} then {B,C}
\* gives {A,B,C}.
C7_VerbMerging ==
    /\ \A n \in DOMAIN resourceAccessResults :
          /\ NoDuplicates(resourceAccessResults[n])
          /\ Elems(resourceAccessResults[n]) = VerbsGiven(ruleIdx, n)
    /\ (pc = "rules" /\ ruleIdx = Len(resourceRules)) =>
          \A f \in IndexPermutations(Len(resourceRules)) :
              AsSets(ApplyRules(EmptyMap, Permuted(resourceRules, f), gr, resourcenames))
                = AsSets(resourceAccessResults)
    /\ ( /\ pc = "rules" /\ ruleIdx = 2
         /\ gr = MetricsACLConfig.groupRes
         /\ resourcenames = <<>>
         /\ resourceRules \in {<<RedMetricsRule, BlueMetricsRule>>,
                                <<BlueMetricsRule, RedMetricsRule>>} )
       => Elems(resourceAccessResults["devcluster1"])
            = {Metrics(NsRed1), Metrics(NsRed2), Metrics(NsBlue1)}

C7_Witness ==
    /\ pc = "rules"
    /\ ruleIdx = 2
    /\ resourceRules = <<RedMetricsRule, BlueMetricsRule>>
    /\ resourcenames = <<>>
    /\ gr = MetricsACLConfig.groupRes
    /\ resourceAccessResults["devcluster1"]
          = <<Metrics(NsRed1), Metrics(NsRed2), Metrics(NsBlue1)>>
    /\ resourceAccessResults["devcluster2"] = <<Metrics(NsRed1), Metrics(NsRed2)>>

-----------------------------------------------------------------------------
\* C8: NewAccessReviewer succeeds exactly when one of kConfig and kClient is
\* non-nil; with both nil or both non-nil it returns a nil reviewer and an
\* error; with one set the reviewer holds that source and the other field is
\* nil.
NewAccessReviewerCalled == ctorErr # "" \/ ~reviewer.isNil \/ ~kConfig.isNil \/ ~kClient.isNil

C8_ExactlyOneSource ==
    NewAccessReviewerCalled =>
        /\ (~reviewer.isNil /\ ctorErr = "") <=> (kConfig.isNil # kClient.isNil)
        /\ (kConfig.isNil = kClient.isNil) => (reviewer.isNil /\ ctorErr # "")
        /\ (~kConfig.isNil /\ kClient.isNil)
              => (reviewer.kubeConfig = kConfig /\ reviewer.kubeClient.isNil)
        /\ (kConfig.isNil /\ ~kClient.isNil)
              => (reviewer.kubeClient = kClient /\ reviewer.kubeConfig.isNil)

C8_Witness ==
    /\ ~kConfig.isNil
    /\ kClient.isNil
    /\ ~reviewer.isNil
    /\ ctorErr = ""
    /\ reviewer.kubeConfig = BaseK8sConfig
    /\ reviewer.kubeClient.isNil

\* C9: in GetMetricsAccess on a reviewer with a configuration, an empty token
\* ends the call with the configuration error and a nil map and nothing is
\* sent, and with a non-empty token the client made, the one the request goes
\* out with, carries that token; on a reviewer with a client the request goes
\* out with that client whatever the token is.
C9_ClientForUser ==
    op = "GetMetricsAccess" =>
        IF ~reviewer.kubeConfig.isNil
        THEN IF userToken = ""
             THEN /\ pc = "done"
                  /\ ret = ReturnNil(ErrNoToken)
                  /\ ~request.sent
                  /\ ~response.received
             ELSE IF kclient.isNil
             THEN pc = "done" /\ ret = ReturnNil(ErrNewForConfig) /\ ~request.sent
             ELSE /\ kclient.config.BearerToken = userToken
                  /\ kclient.config.BearerTokenFile = ""
                  /\ request.sent
                  /\ request.client = kclient
        ELSE /\ kclient = reviewer.kubeClient
             /\ request = [sent |-> TRUE, client |-> reviewer.kubeClient,
                            Namespace |-> "$ Invalid $"]
             /\ ret.returned => ret.err \notin {ErrNoToken, ErrNewForConfig}

C9_Witness ==
    /\ ReturnedMap
    /\ op = "GetMetricsAccess"
    /\ ~reviewer.kubeConfig.isNil
    /\ reviewer.kubeConfig.BearerToken = "sa-token"
    /\ userToken = "user-red-token"
    /\ request.sent
    /\ request.client.config.BearerToken = "user-red-token"

\* C10: an answer with rules and an evaluation error is no failure:
\* makeSubjectRulesReviewForUser returns its rules unchanged without error and
\* the result is the one these rules give; when the call itself fails,
\* GetResourceAccess and GetMetricsAccess return that error with a nil map.
C10_EvaluationError ==
    response.received =>
        IF response.failed
        THEN /\ pc = "done"
             /\ ret = ReturnNil(response.err)
             /\ resourceAccessResults = EmptyMap
        ELSE /\ resourceRules = response.Status.ResourceRules
             /\ Len(resourceRules) = Len(response.Status.ResourceRules)
             /\ pc \in {"rules", "done"}
             /\ pc = "done" =>
                   /\ ReturnedMap
                   /\ ret.err = ""
                   /\ op = "GetResourceAccess" =>
                         /\ DOMAIN ret.value
                               = {n \in KnownNames :
                                    \E i \in DOMAIN resourceRules :
                                       ContributesTo(resourceRules[i], gr, resourcenames, n)}
                                 \cup Elems(resourcenames)
                         /\ \A n \in DOMAIN ret.value : Elems(ret.value[n]) = VerbsOf(n)
                   /\ op = "GetMetricsAccess" =>
                         \A c \in DOMAIN ret.value : Elems(ret.value[c]) = NamespacesOf(c)

C10_Witness ==
    /\ ReturnedMap
    /\ op = "GetResourceAccess"
    /\ ~response.failed
    /\ response.Status.EvaluationError # ""
    /\ resourceRules = <<RedMetricsRule, BlueMetricsRule>>
    /\ gr = MetricsACLConfig.groupRes
    /\ resourcenames = <<>>
    /\ ret.err = ""
    /\ DOMAIN ret.value = {"devcluster1", "devcluster2"}

-----------------------------------------------------------------------------
C12_DefaultNamespace ==
    (op = "GetResourceAccess" /\ namespace = "" /\ request.sent)
        => request.Namespace = "default"

\* C13, as claimed: every top-level call makes exactly one round trip to the
\* authority.
C13_ExactlyOneRoundTrip == pc = "done" => trips = 1

\* C13, amended: a top-level call makes one round trip once it has a client
\* and none when GetMetricsAccess fails to get its client; it never makes a
\* second one, neither after a failure nor after the answer, and every map
\* returned comes from the answer to the round trip of its own call.
C13_OneRoundTripWithClient ==
    /\ trips <= 1
    /\ trips = (IF request.sent THEN 1 ELSE 0)
    /\ response.received => trips = 1
    /\ pc = "done" =>
          /\ trips = 0 <=> ( /\ op = "GetMetricsAccess"
                             /\ ret.isNil
                             /\ ret.err \in {ErrNoToken, ErrNewForConfig}
                             /\ ~response.received )
          /\ trips = 1 => response.received
          /\ (response.received /\ response.failed) => ret = ReturnNil(response.err)
          /\ ~ret.isNil => (trips = 1 /\ response.received /\ ~response.failed)

C13_Witness ==
    /\ pc = "done"
    /\ op = "GetMetricsAccess"
    /\ response.received
    /\ response.failed
    /\ trips = 1
    /\ ret = ReturnNil(ErrCreate)

-----------------------------------------------------------------------------
\* the namespaces that a set of verbs stands for
Decoded(verbs) ==
    {AfterMetricsPrefix(v) : v \in {w \in verbs : IsMetricsVerb(w)}}
    \cup (IF <<"*">> \in verbs THEN {<<"*">>} ELSE {})

\* the verbs of the matching rules without resource names
UnrestrictedVerbs ==
    UNION {Elems(resourceRules[i].Verbs) :
             i \in {j \in DOMAIN resourceRules :
                      /\ RuleIsFor(resourceRules[j], gr)
                      /\ resourceRules[j].ResourceNames = <<>>}}

\* the verbs of the matching rules that name c
VerbsNaming(c) ==
    UNION {Elems(resourceRules[i].Verbs) :
             i \in {j \in DOMAIN resourceRules :
                      /\ RuleIsFor(resourceRules[j], gr)
                      /\ c \in Elems(resourceRules[j].ResourceNames)}}

\* C15: with no cluster requested, the entry "*" of the map returned by
\* GetMetricsAccess holds only the namespaces decoded from the matching rules
\* without resource names, and the entry of a cluster c only those decoded
\* from the matching rules that name c; both entries are there when both kinds
\* of rule give a namespace.
C15_StarAndNamedApart ==
    (ReturnedMap /\ op = "GetMetricsAccess" /\ resourcenames = <<>>) =>
        /\ "*" \in DOMAIN ret.value <=> Decoded(UnrestrictedVerbs) # {}
        /\ "*" \in DOMAIN ret.value
              => Elems(ret.value["*"]) = Decoded(UnrestrictedVerbs)
        /\ \A c \in KnownNames \ {"*"} :
              /\ c \in DOMAIN ret.value <=> Decoded(VerbsNaming(c)) # {}
              /\ c \in DOMAIN ret.value
                    => Elems(ret.value[c]) = Decoded(VerbsNaming(c))

C15_Witness ==
    /\ ReturnedMap
    /\ op = "GetMetricsAccess"
    /\ resourcenames = <<>>
    /\ resourceRules = <<BlueMetricsRule, SystemMetricsRule>>
    /\ DOMAIN ret.value = {"*", "devcluster1"}
    /\ ret.value["*"] = <<NsKubeSystem>>
    /\ Elems(ret.value["devcluster1"]) = {NsRed2, NsBlue1}

-----------------------------------------------------------------------------
\* one step leaves the reviewer's pointer and the object it points to as
\* they are
C14_StoredStep ==
    rKubeConfig # NilPointer =>
        /\ rKubeConfig' = rKubeConfig
        /\ rKubeConfig \in DOMAIN heap'
        /\ heap'[rKubeConfig] = heap[rKubeConfig]

\* the calls that have a userKubeConfig
WithConfig == {c \in CallIds : calls[c].userKubeConfig # NilPointer}

C14_OwnToken ==
    /\ rKubeConfig # KConfigAddr
    /\ rKubeConfig # NilPointer => rKubeConfig \in DOMAIN heap
    /\ \A c \in CallIds :
          /\ calls[c].sent => calls[c].authToken = calls[c].userToken
          /\ calls[c].sent => calls[c].kclient.config.BearerTokenFile = ""
          /\ ~calls[c].kclient.isNil
                => calls[c].kclient.config.BearerToken = calls[c].userToken
    /\ \A c \in WithConfig :
          /\ calls[c].userKubeConfig \notin {rKubeConfig, KConfigAddr}
          /\ \A d \in WithConfig \ {c} :
                calls[d].userKubeConfig # calls[c].userKubeConfig

\* C14: while GetMetricsAccess calls with different tokens interleave on a
\* reviewer built from a config, no step changes the reviewer's stored
\* configuration, each round trip carries the token of its own call, and the
\* stored configuration is an object other than the one the caller passed.
C14_ConcurrentCalls == [][C14_StoredStep]_vars /\ []C14_OwnToken

C14_Witness ==
    /\ \A c \in CallIds : calls[c].pc = "await" /\ calls[c].sent
    /\ \A c \in CallIds : calls[c].authToken = calls[c].userToken
    /\ \E c, d \in CallIds : calls[c].userToken # calls[d].userToken
    /\ rKubeConfig = ConfigCopyAddr
    /\ heap[rKubeConfig] = BaseK8sConfig
    /\ heap[KConfigAddr] # BaseK8sConfig

====
